---- MODULE Spec2Model ----
(***************************************************************************)
(* A model of sawtooth_rest_api/route_handlers.py: the RouteHandler of the *)
(* Sawtooth REST API.  Every HTTP request is a task of the aiohttp event   *)
(* loop; a handler turns the request into a validator query, sends it over *)
(* the shared Stream, waits for the correlated reply, runs the error traps *)
(* over the reply's status and wraps the parsed reply in a JSON envelope.  *)
(*                                                                         *)
(* Text is modelled as a sequence of tokens: "http://h/batches" is         *)
(* <<"http", "://", "h", "/", "batches">>.  Concatenating the tokens gives *)
(* the text the code produces.                                             *)
(***************************************************************************)
EXTENDS Integers, Sequences, FiniteSets, TLC

VARIABLES
    pc,        \* task -> "idle" | "reading" | "waiting" | "done"
    request,   \* task -> the aiohttp request it handles
    corr,      \* task -> correlation id of the future its handler holds
    sent,      \* task -> number of messages the handler sent to the validator
    outcome,   \* task -> what the handler returned or raised
    futures,   \* the Stream's pending table: correlation id -> future
    wire,      \* messages the validator has received and not yet answered
    nextCorr   \* the next correlation id the Stream hands out

vars == <<pc, request, corr, sent, outcome, futures, wire, nextCorr>>

----------------------------------------------------------------------------
(* Bounds of the model *)

NumTasks == 2      \* HTTP requests handled side by side (ConcSpec)
MaxBatches == 2    \* batches in a submitted BatchList
MaxNested == 1     \* batches in a returned block, transactions in a batch
MaxDeep == 2       \* the same, in the blocks of ExpandSpec

(* Program constants *)

DEFAULT_TIMEOUT == 300

----------------------------------------------------------------------------
(* Python values *)

None == [some |-> FALSE]
Some(x) == [some |-> TRUE, v |-> x]

Return(x) == [raised |-> FALSE, v |-> x]
Raise(e) == [raised |-> TRUE, error |-> e]

\* the empty dict
EmptyDict == [k \in {} |-> 0]

\* sep.join(items), items being pieces of text
RECURSIVE Join(_, _)
Join(items, sep) ==
    IF Len(items) = 0 THEN <<>>
    ELSE IF Len(items) = 1 THEN items[1]
    ELSE items[1] \o <<sep>> \o Join(Tail(items), sep)

\* text.replace(old, new), old being one token
Replace(text, old, new) ==
    [n \in 1..Len(text) |-> IF text[n] = old THEN new ELSE text[n]]

\* text.split(sep)
RECURSIVE Split(_, _)
Split(text, sep) ==
    IF \A n \in 1..Len(text) : text[n] # sep THEN <<text>>
    ELSE LET k == CHOOSE n \in 1..Len(text) :
                      text[n] = sep /\ \A m \in 1..(n - 1) : text[m] # sep
         IN <<SubSeq(text, 1, k - 1)>> \o Split(SubSeq(text, k + 1, Len(text)), sep)

\* text.lower(), over the tokens the model uses
LowerToken(t) ==
    CASE t = "False" -> "false"
      [] t = "FALSE" -> "false"
      [] t = "True" -> "true"
      [] OTHER -> t
Lower(text) == [n \in 1..Len(text) |-> LowerToken(text[n])]

\* int(text): the tokens that are decimal numerals
IntTokens == {"0", "5", "30", "-5"}
IsInt(text) == Len(text) = 1 /\ text[1] \in IntTokens
IntOf(text) ==
    CASE text[1] = "0" -> 0
      [] text[1] = "5" -> 5
      [] text[1] = "30" -> 30
      [] text[1] = "-5" -> 0 - 5

\* a value a uint32 field of a protobuf message takes; assigning any other
\* integer raises ValueError
IsUInt32(n) == n >= 0 /\ n \div 65536 < 65536

\* A URL carries the "&" and "=" of a query value percent-encoded;
\* request.url.query holds the values decoded, str(request.url) the URL as
\* it was received.
Quote(text) ==
    [n \in 1..Len(text) |->
        CASE text[n] = "&" -> "%26"
          [] text[n] = "=" -> "%3D"
          [] OTHER -> text[n]]

Unquote(text) ==
    [n \in 1..Len(text) |->
        CASE text[n] = "%26" -> "&"
          [] text[n] = "%3D" -> "="
          [] OTHER -> text[n]]

\* the parameters of a query string, decoded: the items between the "&", each
\* cut at its first "="
ParseQuery(text) ==
    LET items == IF Len(text) = 0 THEN <<>> ELSE Split(text, "&")
    IN [n \in 1..Len(items) |->
           IF Len(items[n]) >= 2 /\ items[n][2] = "="
           THEN [k |-> items[n][1],
                 v |-> Unquote(SubSeq(items[n], 3, Len(items[n])))]
           ELSE [k |-> IF Len(items[n]) > 0 THEN items[n][1] ELSE "",
                 v |-> <<>>]]

\* request.url.query.get(key, default): the first value of the key
RECURSIVE QueryGet(_, _, _)
QueryGet(query, key, default) ==
    IF Len(query) = 0 THEN default
    ELSE IF query[1].k = key THEN Some(query[1].v)
    ELSE QueryGet(Tail(query), key, default)

----------------------------------------------------------------------------
(* The validator's reply types (client_pb2) and the error traps            *)
(* (error_handlers), as the handlers use them.                             *)

\* the status enumeration of each reply type; the first name is the default
StatusEnum(proto) ==
    CASE proto = "ClientBatchSubmitResponse" ->
            <<"OK", "INTERNAL_ERROR", "INVALID_BATCH">>
      [] proto = "ClientBatchStatusResponse" ->
            <<"OK", "INTERNAL_ERROR", "NO_RESOURCE">>
      [] proto = "ClientStateListResponse" ->
            <<"OK", "INTERNAL_ERROR", "NOT_READY", "NO_ROOT", "NO_RESOURCE">>
      [] proto = "ClientStateGetResponse" ->
            <<"OK", "INTERNAL_ERROR", "NOT_READY", "NO_ROOT", "NO_RESOURCE",
              "INVALID_ADDRESS">>
      [] proto = "ClientBlockListResponse" ->
            <<"OK", "INTERNAL_ERROR", "NOT_READY", "NO_ROOT", "NO_RESOURCE">>
      [] proto = "ClientBlockGetResponse" ->
            <<"OK", "INTERNAL_ERROR", "NO_RESOURCE", "INVALID_ID">>
      [] proto = "ClientBatchListResponse" ->
            <<"OK", "INTERNAL_ERROR", "NOT_READY", "NO_ROOT", "NO_RESOURCE">>
      [] proto = "ClientBatchGetResponse" ->
            <<"OK", "INTERNAL_ERROR", "NO_RESOURCE", "INVALID_ID">>

\* hasattr(proto, name): the reply type defines the status code
HasStatus(proto, name) ==
    \E n \in 1..Len(StatusEnum(proto)) : StatusEnum(proto)[n] = name

\* the payload fields of each reply type that MessageToDict always emits,
\* with their default values
DefaultFields(proto) ==
    CASE proto = "ClientBatchSubmitResponse" ->
            [status |-> "OK", batch_statuses |-> EmptyDict]
      [] proto = "ClientBatchStatusResponse" ->
            [status |-> "OK", batch_statuses |-> EmptyDict]
      [] proto = "ClientStateListResponse" ->
            [status |-> "OK", head_id |-> "", leaves |-> <<>>]
      [] proto = "ClientStateGetResponse" ->
            [status |-> "OK", head_id |-> "", value |-> <<>>]
      [] proto = "ClientBlockListResponse" ->
            [status |-> "OK", head_id |-> "", blocks |-> <<>>]
      [] proto = "ClientBlockGetResponse" ->
            [status |-> "OK"]
      [] proto = "ClientBatchListResponse" ->
            [status |-> "OK", head_id |-> "", batches |-> <<>>]
      [] proto = "ClientBatchGetResponse" ->
            [status |-> "OK"]

\* an error trap: raises its error when the reply status is its trigger
Trap(name, trigger) == [trap |-> name, code |-> trigger]

InvalidBatch == Trap("InvalidBatch", "INVALID_BATCH")
StatusesNotReturned == Trap("StatusesNotReturned", "NO_RESOURCE")
MissingLeaf == Trap("MissingLeaf", "NO_RESOURCE")
BadAddress == Trap("BadAddress", "INVALID_ADDRESS")
MissingBlock == Trap("MissingBlock", "NO_RESOURCE")
InvalidBlockId == Trap("InvalidBlockId", "INVALID_ID")
MissingBatch == Trap("MissingBatch", "NO_RESOURCE")
InvalidBatchId == Trap("InvalidBatchId", "INVALID_ID")

\* the errors (errors module) that answer a client's mistake with a 4xx
\* status; an exception that is none of the API's errors ends the request
\* with a 500
ClientErrors ==
    {"WrongBodyType", "EmptyProtobuf", "BadProtobuf", "BadStatusBody",
     "MissingStatusId"}

\* trap.check(status)
TrapCheck(trap, status) ==
    IF status = trap.code THEN Raise(trap.trap) ELSE Return(status)

----------------------------------------------------------------------------
(* Conversions between protobuf messages and JSON-ready dicts *)

\* a bytes field rendered by MessageToDict: base64 text of the bytes
B64Encode(bytes) == [base64 |-> bytes]

\* base64.b64decode(text)
B64Decode(text) == text.base64

\* MessageToDict of a Transaction, a Batch and a Block: the header bytes
\* become base64 text, the repeated fields are always emitted
DictTransaction(t) ==
    [header |-> B64Encode(t.header), header_signature |-> t.header_signature]

DictBatch(b) ==
    [header |-> B64Encode(b.header),
     header_signature |-> b.header_signature,
     transactions |->
         [n \in 1..Len(b.transactions) |-> DictTransaction(b.transactions[n])]]

DictBlock(b) ==
    [header |-> B64Encode(b.header),
     header_signature |-> b.header_signature,
     batches |-> [n \in 1..Len(b.batches) |-> DictBatch(b.batches[n])]]

\* RouteHandler.message_to_dict on a reply of type proto: the fields set in
\* the message, the defaults of the others
message_to_dict(proto, content) ==
    LET total == content @@ DefaultFields(proto)
    IN [f \in DOMAIN total |->
           CASE f = "blocks" ->
                   [n \in 1..Len(total[f]) |-> DictBlock(total[f][n])]
             [] f = "block" -> DictBlock(total[f])
             [] f = "batches" ->
                   [n \in 1..Len(total[f]) |-> DictBatch(total[f][n])]
             [] f = "batch" -> DictBatch(total[f])
             [] OTHER -> total[f]]

----------------------------------------------------------------------------
(* RouteHandler's helpers *)

\* the timeout the RouteHandler was built with
HandlerTimeout == DEFAULT_TIMEOUT

\* _try_validator_request without the handler of FutureTimeoutError
try_validator_request_timeout_uncaught(fut) ==
    IF fut.state = "pending" THEN Raise("FutureTimeoutError")
    ELSE IF fut.state = "error" THEN Raise("ValidatorUnavailable")
    ELSE Return(fut.message.content)

\* _try_validator_request without the handler of ValidatorConnectionError
try_validator_request_disconnect_uncaught(fut) ==
    IF fut.state = "pending" THEN Raise("ValidatorUnavailable")
    ELSE IF fut.state = "error" THEN Raise("ValidatorConnectionError")
    ELSE Return(fut.message.content)

\* _try_validator_request, from the wait on the future on: fut is the future
\* as future.result(timeout) leaves it
try_validator_request(fut) ==
    IF fut.state = "pending" THEN Raise("ValidatorUnavailable")
    ELSE IF fut.state = "error" THEN Raise("ValidatorUnavailable")
    ELSE Return(fut.message.content)

\* the traps of _try_response_parse starting from an empty list: the traps
\* of the call are lost
trap_chain_baseline_only(proto, traps) ==
    LET t1 == IF HasStatus(proto, "INTERNAL_ERROR")
              THEN <<Trap("Unknown", "INTERNAL_ERROR")>> ELSE <<>>
        t2 == IF HasStatus(proto, "NOT_READY")
              THEN Append(t1, Trap("NotReady", "NOT_READY")) ELSE t1
        t3 == IF HasStatus(proto, "NO_ROOT")
              THEN Append(t2, Trap("MissingHead", "NO_ROOT")) ELSE t2
    IN t3

\* the traps of _try_response_parse appended to a list that outlives the
\* call: the traps an earlier call has evaluated come first
trap_chain_kept(proto, traps) ==
    LET earlier == {j \in DOMAIN outcome : "traps" \in DOMAIN outcome[j]}
        kept == IF earlier = {} THEN <<>>
                ELSE outcome[CHOOSE j \in earlier :
                                 \A k \in earlier :
                                     Len(outcome[k].traps) <= Len(outcome[j].traps)
                            ].traps
        t0 == kept \o traps
        t1 == IF HasStatus(proto, "INTERNAL_ERROR")
              THEN Append(t0, Trap("Unknown", "INTERNAL_ERROR")) ELSE t0
        t2 == IF HasStatus(proto, "NOT_READY")
              THEN Append(t1, Trap("NotReady", "NOT_READY")) ELSE t1
        t3 == IF HasStatus(proto, "NO_ROOT")
              THEN Append(t2, Trap("MissingHead", "NO_ROOT")) ELSE t2
    IN t3

\* the traps of _try_response_parse: those of the call, then the baseline
\* traps the reply type has a status code for
trap_chain(proto, traps) ==
    LET t1 == IF HasStatus(proto, "INTERNAL_ERROR")
              THEN Append(traps, Trap("Unknown", "INTERNAL_ERROR")) ELSE traps
        t2 == IF HasStatus(proto, "NOT_READY")
              THEN Append(t1, Trap("NotReady", "NOT_READY")) ELSE t1
        t3 == IF HasStatus(proto, "NO_ROOT")
              THEN Append(t2, Trap("MissingHead", "NO_ROOT")) ELSE t2
    IN t3

\* for trap in traps: trap.check(status)
RECURSIVE check_traps(_, _)
check_traps(traps, status) ==
    IF Len(traps) = 0 THEN Return(status)
    ELSE LET r == TrapCheck(traps[1], status)
         IN IF r.raised THEN r ELSE check_traps(Tail(traps), status)

\* _try_response_parse
try_response_parse(proto, response, traps) ==
    IF "garbled" \in DOMAIN response THEN Raise("DecodeError")
    ELSE LET parsed == response @@ [status |-> StatusEnum(proto)[1]]
             r == check_traps(trap_chain(proto, traps), parsed.status)
         IN IF r.raised THEN r ELSE Return(message_to_dict(proto, response))

\* _wrap_response setting the data key whatever the data: null when None
wrap_response_null_data(data, metadata, status) ==
    LET envelope == IF metadata.some THEN metadata.v ELSE EmptyDict
    IN [status |-> status,
        envelope |-> ("data" :> (IF data.some THEN data.v ELSE "null"))
                         @@ envelope]

\* _wrap_response: metadata is None or Some(dict), data is None or Some(value)
wrap_response(data, metadata, status) ==
    LET envelope == IF metadata.some THEN metadata.v ELSE EmptyDict
    IN [status |-> status,
        envelope |-> IF data.some THEN ("data" :> data.v) @@ envelope
                     ELSE envelope]

\* '{}={}'.format(k, v) of a query parameter
QueryItem(q) == <<q.k, "=">> \o q.v

\* a query parameter as the URL carries it
RawItem(q) == <<q.k, "=">> \o Quote(q.v)

\* str(request.url)
UrlText(req) ==
    <<req.scheme, "://", req.host>> \o req.path \o
    (IF Len(req.query) = 0 THEN <<>>
     ELSE <<"?">> \o Join([n \in 1..Len(req.query) |-> RawItem(req.query[n])],
                          "&"))

\* _get_metadata
get_metadata(req, response) ==
    LET head == IF "head_id" \in DOMAIN response THEN response.head_id ELSE ""
        link == <<req.scheme, "://", req.host>> \o req.path \o
                <<"?", "head", "=", head>>
        others == SelectSeq(req.query, LAMBDA q : q.k # "head")
        headless == [n \in 1..Len(others) |-> QueryItem(others[n])]
    IN IF head = "" THEN [link |-> UrlText(req)]
       ELSE [head |-> head,
             link |-> IF Len(headless) > 0
                      THEN link \o <<"&">> \o Join(headless, "&")
                      ELSE link]

\* _parse_header passing over bytes that are no header: the header is left
\* empty
parse_header_lenient(obj) ==
    LET header_bytes == B64Decode(obj.header)
    IN Return([obj EXCEPT !.header = header_bytes.msg])

\* _parse_header
parse_header(obj) ==
    LET header_bytes == B64Decode(obj.header)
    IN IF header_bytes.ok
       THEN Return([obj EXCEPT !.header = header_bytes.msg])
       ELSE Raise("DecodeError")

\* [f(x) for x in items] where f may raise: the first exception wins
Collect(results) ==
    IF \E n \in 1..Len(results) : results[n].raised
    THEN results[CHOOSE n \in 1..Len(results) :
                     /\ results[n].raised
                     /\ \A m \in 1..(n - 1) : ~results[m].raised]
    ELSE Return([n \in 1..Len(results) |-> results[n].v])

\* _expand_transaction
expand_transaction(transaction) == parse_header(transaction)

\* _expand_batch leaving the transactions as they came
expand_batch_header_only(batch) ==
    parse_header(batch)

\* _expand_batch
expand_batch(batch) ==
    LET parsed == parse_header(batch)
        txns == Collect([n \in 1..Len(batch.transactions) |->
                            expand_transaction(batch.transactions[n])])
    IN IF parsed.raised THEN parsed
       ELSE IF txns.raised THEN txns
       ELSE Return([parsed.v EXCEPT !.transactions = txns.v])

\* _expand_block
expand_block(block) ==
    LET parsed == parse_header(block)
        batches == Collect([n \in 1..Len(block.batches) |->
                               expand_batch(block.batches[n])])
    IN IF parsed.raised THEN parsed
       ELSE IF batches.raised THEN batches
       ELSE Return([parsed.v EXCEPT !.batches = batches.v])

\* _set_wait without the use of the parameter's number: the default timeout
\* whenever it waits
set_wait_default_timeout(req, validator_query) ==
    LET wait == QueryGet(req.query, "wait", Some(<<"false">>)).v
    IN IF Lower(wait) # <<"false">>
       THEN [validator_query EXCEPT
                !.wait_for_commit = TRUE,
                !.timeout = (HandlerTimeout * 95) \div 100]
       ELSE validator_query

\* _set_wait testing the parameter for truth: any non-empty value waits
set_wait_truthy(req, validator_query) ==
    LET wait == QueryGet(req.query, "wait", Some(<<"false">>)).v
    IN IF Len(wait) > 0
       THEN [validator_query EXCEPT
                !.wait_for_commit = TRUE,
                !.timeout = IF IsInt(wait) /\ IsUInt32(IntOf(wait))
                            THEN IntOf(wait)
                            ELSE (HandlerTimeout * 95) \div 100]
       ELSE validator_query

\* _set_wait
set_wait(req, validator_query) ==
    LET wait == QueryGet(req.query, "wait", Some(<<"false">>)).v
    IN IF Lower(wait) # <<"false">>
       THEN [validator_query EXCEPT
                !.wait_for_commit = TRUE,
                !.timeout = IF IsInt(wait) /\ IsUInt32(IntOf(wait))
                            THEN IntOf(wait)
                            ELSE (HandlerTimeout * 95) \div 100]
       ELSE validator_query

\* _get_filter_ids
get_filter_ids(req) ==
    LET filter_ids == QueryGet(req.query, "id", None)
    IN IF filter_ids.some /\ Len(filter_ids.v) > 0
       THEN Split(filter_ids.v, ",") ELSE <<>>

----------------------------------------------------------------------------
(* The handlers.  Each is cut where the coroutine can be suspended: *_begin *)
(* runs from the call to the first await or to the send, *_resume from the *)
(* await to the send, *_respond from the parsed reply to the response.     *)
(* _begin and _resume yield [next |-> "raise", error], [next |-> "await"]  *)
(* or [next |-> "send", query].                                            *)

Fail(e) == [next |-> "raise", error |-> e]
Await == [next |-> "await"]
Send(q) == [next |-> "send", query |-> q]

\* the value of an optional query parameter as a protobuf string field
FieldOf(opt) == IF opt.some THEN opt.v ELSE <<>>

\* submit_batches, to the await of request.read()
submit_batches_begin(req) ==
    IF ~req.ctype.some THEN Fail("KeyError")
    ELSE IF req.ctype.v # "application/octet-stream" THEN Fail("WrongBodyType")
    ELSE Await

\* submit_batches, the query it sends
submit_batches_query(req) ==
    set_wait(req, [type |-> "CLIENT_BATCH_SUBMIT_REQUEST",
                   batches |-> req.body.batches,
                   wait_for_commit |-> FALSE,
                   timeout |-> 0])

\* submit_batches, from the payload read to the send
submit_batches_resume(req) ==
    IF req.body.bytes = "empty" THEN Fail("EmptyProtobuf")
    ELSE IF req.body.bytes # "batchlist" THEN Fail("BadProtobuf")
    ELSE Send(submit_batches_query(req))

\* the link submit_batches builds
submit_link(req) ==
    <<req.scheme, "://", req.host, "/", "batch_status", "?", "id", "=">> \o
    Join([n \in 1..Len(req.body.batches) |->
             <<req.body.batches[n].header_signature>>], ",")

\* submit_batches keeping the statuses as data when all are committed
submit_batches_respond_keeps_data(req, response) ==
    LET statuses == response.batch_statuses
        data == IF DOMAIN statuses = {} THEN None ELSE Some(statuses)
        link == submit_link(req)
    IN IF ~data.some
       THEN Return(wrap_response(data, Some([link |-> link]), 202))
       ELSE IF \E b \in DOMAIN statuses : statuses[b] # "COMMITTED"
       THEN Return(wrap_response(data, Some([link |-> link]), 200))
       ELSE Return(wrap_response(
                data, Some([link |-> Replace(link, "batch_status", "batches")]),
                201))

\* submit_batches, the response envelope
submit_batches_respond(req, response) ==
    LET statuses == response.batch_statuses
        data == IF DOMAIN statuses = {} THEN None ELSE Some(statuses)
        link == submit_link(req)
    IN IF ~data.some
       THEN Return(wrap_response(data, Some([link |-> link]), 202))
       ELSE IF \E b \in DOMAIN statuses : statuses[b] # "COMMITTED"
       THEN Return(wrap_response(data, Some([link |-> link]), 200))
       ELSE Return(wrap_response(
                None, Some([link |-> Replace(link, "batch_status", "batches")]),
                201))

\* list_statuses, to the await of request.json() or to the send
list_statuses_query(req, ids) ==
    set_wait(req, [type |-> "CLIENT_BATCH_STATUS_REQUEST",
                   batch_ids |-> ids,
                   wait_for_commit |-> FALSE,
                   timeout |-> 0])

list_statuses_begin(req) ==
    IF req.method = "POST"
    THEN IF ~req.ctype.some THEN Fail("KeyError")
         ELSE IF req.ctype.v # "application/json" THEN Fail("BadStatusBody")
         ELSE Await
    ELSE LET id == QueryGet(req.query, "id", None)
         IN IF ~id.some THEN Fail("MissingStatusId")
            ELSE Send(list_statuses_query(req, Split(id.v, ",")))

\* list_statuses by POST, from the body read to the send
list_statuses_resume(req) ==
    LET ids == req.body.json
    IN IF req.body.bytes # "json" \/ ids.t = "invalid" THEN Fail("JSONDecodeError")
       ELSE IF ids.t # "list" THEN Fail("BadStatusBody")
       ELSE IF Len(ids.items) = 0 THEN Fail("MissingStatusId")
       ELSE IF ~ids.items[1].str THEN Fail("BadStatusBody")
       ELSE IF \E n \in 1..Len(ids.items) : ~ids.items[n].str
       THEN Fail("TypeError")
       ELSE Send(list_statuses_query(
                req, [n \in 1..Len(ids.items) |-> <<ids.items[n].s>>]))

\* list_statuses computing the metadata whatever the method
list_statuses_respond_with_metadata(req, response) ==
    Return(wrap_response(Some(response.batch_statuses),
                         Some(get_metadata(req, response)), 200))

\* list_statuses, the response
list_statuses_respond(req, response) ==
    LET metadata == IF req.method # "POST"
                    THEN Some(get_metadata(req, response)) ELSE None
    IN Return(wrap_response(Some(response.batch_statuses), metadata, 200))

\* list_state
list_state_begin(req) ==
    Send([type |-> "CLIENT_STATE_LIST_REQUEST",
          head_id |-> FieldOf(QueryGet(req.query, "head", None)),
          address |-> FieldOf(QueryGet(req.query, "address", None))])

list_state_respond(req, response) ==
    Return(wrap_response(Some(response.leaves),
                         Some(get_metadata(req, response)), 200))

\* fetch_state
fetch_state_begin(req) ==
    Send([type |-> "CLIENT_STATE_GET_REQUEST",
          head_id |-> FieldOf(QueryGet(req.query, "head", None)),
          address |-> req.match])

fetch_state_respond(req, response) ==
    Return(wrap_response(Some(response.value),
                         Some(get_metadata(req, response)), 200))

\* list_blocks
list_blocks_begin(req) ==
    Send([type |-> "CLIENT_BLOCK_LIST_REQUEST",
          head_id |-> FieldOf(QueryGet(req.query, "head", None)),
          block_ids |-> get_filter_ids(req)])

list_blocks_respond(req, response) ==
    LET blocks == Collect([n \in 1..Len(response.blocks) |->
                              expand_block(response.blocks[n])])
    IN IF blocks.raised THEN blocks
       ELSE Return(wrap_response(Some(blocks.v),
                                 Some(get_metadata(req, response)), 200))

\* fetch_block
fetch_block_begin(req) ==
    Send([type |-> "CLIENT_BLOCK_GET_REQUEST", block_id |-> req.match])

fetch_block_respond(req, response) ==
    IF "block" \notin DOMAIN response THEN Raise("KeyError")
    ELSE LET block == expand_block(response.block)
         IN IF block.raised THEN block
            ELSE Return(wrap_response(Some(block.v),
                                      Some(get_metadata(req, response)), 200))

\* list_batches
list_batches_begin(req) ==
    Send([type |-> "CLIENT_BATCH_LIST_REQUEST",
          head_id |-> FieldOf(QueryGet(req.query, "head", None)),
          batch_ids |-> get_filter_ids(req)])

list_batches_respond(req, response) ==
    LET batches == Collect([n \in 1..Len(response.batches) |->
                               expand_batch(response.batches[n])])
    IN IF batches.raised THEN batches
       ELSE Return(wrap_response(Some(batches.v),
                                 Some(get_metadata(req, response)), 200))

\* fetch_batch
fetch_batch_begin(req) ==
    Send([type |-> "CLIENT_BATCH_GET_REQUEST", batch_id |-> req.match])

fetch_batch_respond(req, response) ==
    IF "batch" \notin DOMAIN response THEN Raise("KeyError")
    ELSE LET batch == expand_batch(response.batch)
         IN IF batch.raised THEN batch
            ELSE Return(wrap_response(Some(batch.v),
                                      Some(get_metadata(req, response)), 200))

\* the reply type each handler passes to _query_validator
HandlerProto(h) ==
    CASE h = "submit_batches" -> "ClientBatchSubmitResponse"
      [] h = "list_statuses" -> "ClientBatchStatusResponse"
      [] h = "list_state" -> "ClientStateListResponse"
      [] h = "fetch_state" -> "ClientStateGetResponse"
      [] h = "list_blocks" -> "ClientBlockListResponse"
      [] h = "fetch_block" -> "ClientBlockGetResponse"
      [] h = "list_batches" -> "ClientBatchListResponse"
      [] h = "fetch_batch" -> "ClientBatchGetResponse"

\* the error traps each handler passes to _query_validator
HandlerTraps(h) ==
    CASE h = "submit_batches" -> <<InvalidBatch>>
      [] h = "list_statuses" -> <<StatusesNotReturned>>
      [] h = "list_state" -> <<>>
      [] h = "fetch_state" -> <<MissingLeaf, BadAddress>>
      [] h = "list_blocks" -> <<>>
      [] h = "fetch_block" -> <<MissingBlock, InvalidBlockId>>
      [] h = "list_batches" -> <<>>
      [] h = "fetch_batch" -> <<MissingBatch, InvalidBatchId>>

\* the handler the router calls for the request, to its first suspension
HandlerBegin(req) ==
    CASE req.handler = "submit_batches" -> submit_batches_begin(req)
      [] req.handler = "list_statuses" -> list_statuses_begin(req)
      [] req.handler = "list_state" -> list_state_begin(req)
      [] req.handler = "fetch_state" -> fetch_state_begin(req)
      [] req.handler = "list_blocks" -> list_blocks_begin(req)
      [] req.handler = "fetch_block" -> fetch_block_begin(req)
      [] req.handler = "list_batches" -> list_batches_begin(req)
      [] req.handler = "fetch_batch" -> fetch_batch_begin(req)

\* the handler resumed after its await
HandlerResume(req) ==
    CASE req.handler = "submit_batches" -> submit_batches_resume(req)
      [] req.handler = "list_statuses" -> list_statuses_resume(req)

\* the handler from the parsed reply on
HandlerRespond(req, response) ==
    CASE req.handler = "submit_batches" -> submit_batches_respond(req, response)
      [] req.handler = "list_statuses" -> list_statuses_respond(req, response)
      [] req.handler = "list_state" -> list_state_respond(req, response)
      [] req.handler = "fetch_state" -> fetch_state_respond(req, response)
      [] req.handler = "list_blocks" -> list_blocks_respond(req, response)
      [] req.handler = "fetch_block" -> fetch_block_respond(req, response)
      [] req.handler = "list_batches" -> list_batches_respond(req, response)
      [] req.handler = "fetch_batch" -> fetch_batch_respond(req, response)

\* _query_validator, from the wait on the future on
query_validator(proto, fut, traps) ==
    LET response == try_validator_request(fut)
    IN IF response.raised THEN response
       ELSE try_response_parse(proto, response.v, traps)

\* the list of traps _try_response_parse runs over in the handler's call:
\* none when the call fails before, on the future or on the reply's bytes
EvaluatedTraps(req, fut) ==
    LET response == try_validator_request(fut)
    IN IF response.raised \/ "garbled" \in DOMAIN response.v THEN <<>>
       ELSE trap_chain(HandlerProto(req.handler), HandlerTraps(req.handler))

\* the handler building its response from the payload before the traps have
\* seen the status
HandlerFinish_payload_first(req, fut) ==
    LET raw == try_validator_request(fut)
        proto == HandlerProto(req.handler)
    IN IF raw.raised THEN raw
       ELSE IF "garbled" \in DOMAIN raw.v THEN Raise("DecodeError")
       ELSE LET built == HandlerRespond(req, message_to_dict(proto, raw.v))
                checked == try_response_parse(proto, raw.v,
                                              HandlerTraps(req.handler))
            IN IF built.raised THEN built
               ELSE IF checked.raised THEN checked
               ELSE built

\* the handler from the wait on the future to its end
HandlerFinish(req, fut) ==
    LET response == query_validator(HandlerProto(req.handler), fut,
                                    HandlerTraps(req.handler))
    IN IF response.raised THEN response
       ELSE HandlerRespond(req, response.v)

----------------------------------------------------------------------------
(* The HTTP requests the model draws from *)

P(key, value) == [k |-> key, v |-> value]

SeqsUpTo(S, n) == UNION {[1..m -> S] : m \in 0..n}

Hosts == {"localhost:8080", "batch_status"}
BatchIds == {"aaa", "bbb", "batch_status"}

NoJson == [t |-> "invalid", items |-> <<>>]
NoBody == [bytes |-> "empty", batches |-> <<>>, json |-> NoJson]

Req(h, m, ct, b, host, path, q, match) ==
    [handler |-> h, method |-> m, ctype |-> ct, body |-> b, scheme |-> "http",
     host |-> host, path |-> path, query |-> q, match |-> match]

\* the serialized BatchLists: a BatchList without batches is the empty payload
BatchLists ==
    {[bytes |-> "batchlist",
      batches |-> [n \in 1..Len(ids) |-> [header_signature |-> ids[n]]],
      json |-> NoJson] : ids \in SeqsUpTo(BatchIds, MaxBatches) \ {<<>>}}

SubmitBodies ==
    BatchLists \cup {NoBody, [bytes |-> "garbage", batches |-> <<>>, json |-> NoJson]}

ContentTypes ==
    {Some("application/octet-stream"), Some("application/json"), None}

WaitQueries ==
    {<<>>} \cup
    {<<P("wait", <<w>>)>> : w \in {"false", "False", "true", "5", "-5"}}

SubmitRequests ==
    {Req("submit_batches", "POST", ct, b, h, <<"/", "batches">>, q, <<>>) :
        ct \in ContentTypes, b \in SubmitBodies, h \in Hosts, q \in WaitQueries}

JsonStr(s) == [str |-> TRUE, s |-> s]
JsonNum(s) == [str |-> FALSE, s |-> s]

JsonBodies ==
    {[bytes |-> "json", batches |-> <<>>, json |-> j] :
        j \in {NoJson,
               [t |-> "object", items |-> <<>>],
               [t |-> "list", items |-> <<>>],
               [t |-> "list", items |-> <<JsonStr("aaa")>>],
               [t |-> "list", items |-> <<JsonStr("aaa"), JsonStr("bbb")>>],
               [t |-> "list", items |-> <<JsonNum("5")>>],
               [t |-> "list", items |-> <<JsonStr("aaa"), JsonNum("5")>>]}}

StatusQueries ==
    {<<>>,
     <<P("id", <<"aaa", ",", "bbb">>)>>,
     <<P("id", <<>>)>>,
     <<P("id", <<"aaa">>), P("wait", <<"true">>)>>,
     <<P("wait", <<"5">>), P("id", <<"bbb">>)>>}

StatusRequests ==
    {Req("list_statuses", "GET", None, NoBody, h, <<"/", "batch_status">>, q, <<>>) :
        h \in Hosts, q \in StatusQueries}
    \cup
    {Req("list_statuses", "POST", ct, b, "localhost:8080", <<"/", "batch_status">>,
         q, <<>>) :
        ct \in ContentTypes, b \in JsonBodies,
        q \in {<<>>, <<P("wait", <<"true">>)>>}}

StateQueries ==
    {<<>>,
     <<P("head", <<"h1">>)>>,
     <<P("address", <<"000000">>)>>,
     <<P("address", <<"000000">>), P("head", <<"h1">>)>>,
     <<P("head", <<"h1">>), P("address", <<"000000">>)>>,
     <<P("address", <<"00", "&", "head", "=", "h1">>)>>,
     <<P("address", <<"00", "&", "head", "=", "zz">>), P("head", <<"h1">>)>>}

FilterQueries ==
    {<<>>,
     <<P("head", <<"h1">>)>>,
     <<P("id", <<"aaa", ",", "bbb">>)>>,
     <<P("id", <<"aaa">>), P("head", <<"h1">>)>>,
     <<P("head", <<"h1">>), P("id", <<>>)>>}

GetRequests ==
    {Req("list_state", "GET", None, NoBody, h, <<"/", "state">>, q, <<>>) :
        h \in Hosts, q \in StateQueries}
    \cup
    {Req("fetch_state", "GET", None, NoBody, h, <<"/", "state", "/", "000000">>,
         q, <<"000000">>) :
        h \in Hosts, q \in {<<>>, <<P("head", <<"h1">>)>>}}
    \cup
    {Req("list_blocks", "GET", None, NoBody, h, <<"/", "blocks">>, q, <<>>) :
        h \in Hosts, q \in FilterQueries}
    \cup
    {Req("fetch_block", "GET", None, NoBody, h, <<"/", "blocks", "/", "aaa">>,
         <<>>, <<"aaa">>) : h \in Hosts}
    \cup
    {Req("list_batches", "GET", None, NoBody, h, <<"/", "batches">>, q, <<>>) :
        h \in Hosts, q \in FilterQueries}
    \cup
    {Req("fetch_batch", "GET", None, NoBody, h, <<"/", "batches", "/", "aaa">>,
         <<>>, <<"aaa">>) : h \in Hosts}

Requests == SubmitRequests \cup StatusRequests \cup GetRequests

\* the requests of the runs with several tasks
ConcRequests ==
    {Req("fetch_block", "GET", None, NoBody, "localhost:8080",
         <<"/", "blocks", "/", "aaa">>, <<>>, <<"aaa">>),
     Req("list_statuses", "POST", Some("application/json"),
         [bytes |-> "json", batches |-> <<>>,
          json |-> [t |-> "list", items |-> <<JsonStr("aaa")>>]],
         "localhost:8080", <<"/", "batch_status">>, <<>>, <<>>),
     Req("submit_batches", "POST", Some("application/octet-stream"),
         [bytes |-> "batchlist", batches |-> <<[header_signature |-> "aaa"]>>,
          json |-> NoJson],
         "localhost:8080", <<"/", "batches">>, <<P("wait", <<"true">>)>>, <<>>)}

\* the requests of the runs with one request after another: one to each
\* endpoint
SeqRequests ==
    {Req("submit_batches", "POST", Some("application/octet-stream"),
         [bytes |-> "batchlist", batches |-> <<[header_signature |-> "aaa"]>>,
          json |-> NoJson],
         "localhost:8080", <<"/", "batches">>, <<>>, <<>>),
     Req("list_statuses", "GET", None, NoBody, "localhost:8080",
         <<"/", "batch_status">>, <<P("id", <<"aaa">>)>>, <<>>),
     Req("list_state", "GET", None, NoBody, "localhost:8080",
         <<"/", "state">>, <<>>, <<>>),
     Req("fetch_state", "GET", None, NoBody, "localhost:8080",
         <<"/", "state", "/", "000000">>, <<>>, <<"000000">>),
     Req("list_blocks", "GET", None, NoBody, "localhost:8080",
         <<"/", "blocks">>, <<>>, <<>>),
     Req("fetch_block", "GET", None, NoBody, "localhost:8080",
         <<"/", "blocks", "/", "aaa">>, <<>>, <<"aaa">>),
     Req("list_batches", "GET", None, NoBody, "localhost:8080",
         <<"/", "batches">>, <<>>, <<>>),
     Req("fetch_batch", "GET", None, NoBody, "localhost:8080",
         <<"/", "batches", "/", "aaa">>, <<>>, <<"aaa">>)}

----------------------------------------------------------------------------
(* The validator: what it may answer to a message *)

GoodBytes(x) == [ok |-> TRUE, msg |-> [signer_pubkey |-> x]]
BadBytes == [ok |-> FALSE, msg |-> [signer_pubkey |-> ""]]
HeaderBytes == {GoodBytes("key"), BadBytes}

WireTransactions ==
    {[header |-> h, header_signature |-> "ttt"] : h \in HeaderBytes}

WireBatches ==
    {[header |-> h, header_signature |-> "aaa", transactions |-> ts] :
        h \in HeaderBytes, ts \in SeqsUpTo(WireTransactions, MaxNested)}

WireBlocks ==
    {[header |-> h, header_signature |-> "aaa", batches |-> bs] :
        h \in HeaderBytes, bs \in SeqsUpTo(WireBatches, MaxNested)}

PlainBatch(h) == [header |-> h, header_signature |-> "bbb", transactions |-> <<>>]
PlainBlock(h) == [header |-> h, header_signature |-> "bbb", batches |-> <<>>]

\* blocks whose headers all decode, with up to MaxDeep batches of up to
\* MaxDeep transactions, told apart by their signatures
DeepKeys == {"k1", "k2"}

DeepTransactions ==
    {[header |-> GoodBytes(k), header_signature |-> k] : k \in DeepKeys}

DeepBatches ==
    {[header |-> GoodBytes(k), header_signature |-> k, transactions |-> ts] :
        k \in DeepKeys, ts \in SeqsUpTo(DeepTransactions, MaxDeep)}

DeepBlocks ==
    {[header |-> GoodBytes("key"), header_signature |-> "aaa", batches |-> bs] :
        bs \in SeqsUpTo(DeepBatches, MaxDeep)}

\* the lists a list reply may carry: none, one, or one followed by a plain one
ListsOf(S, plain) ==
    {<<>>} \cup {<<x>> : x \in S} \cup {<<x, y>> : x \in S, y \in plain}

Leaves == {<<>>, <<[address |-> <<"000000">>, data |-> <<"ZGF0YQ==">>]>>}

HeadIds == {"", "h1", "h9"}

\* the batch ids a submit or status query names
QueryIds(query) ==
    IF query.type = "CLIENT_BATCH_SUBMIT_REQUEST"
    THEN {query.batches[n].header_signature : n \in 1..Len(query.batches)}
    ELSE {query.batch_ids[n] : n \in 1..Len(query.batch_ids)}

\* the per-batch statuses of a reply: none unless the query waits for the
\* commit, else a status for each batch
StatusMaps(query) ==
    IF query.type = "CLIENT_BATCH_SUBMIT_REQUEST"
    THEN IF query.wait_for_commit
         THEN [QueryIds(query) -> {"COMMITTED", "PENDING"}] \cup {EmptyDict}
         ELSE {EmptyDict}
    ELSE [{IF Len(id) = 1 THEN id[1] ELSE "" : id \in QueryIds(query)}
             -> {"COMMITTED", "PENDING"}]

\* the payloads of an OK reply
OkContents(query) ==
    CASE query.type = "CLIENT_BATCH_SUBMIT_REQUEST" ->
            {[status |-> "OK", batch_statuses |-> m] : m \in StatusMaps(query)}
      [] query.type = "CLIENT_BATCH_STATUS_REQUEST" ->
            {[status |-> "OK", batch_statuses |-> m] : m \in StatusMaps(query)}
      [] query.type = "CLIENT_STATE_LIST_REQUEST" ->
            {[status |-> "OK", head_id |-> h, leaves |-> l] :
                h \in HeadIds, l \in Leaves}
      [] query.type = "CLIENT_STATE_GET_REQUEST" ->
            {[status |-> "OK", head_id |-> h, value |-> <<"ZGF0YQ==">>] :
                h \in HeadIds}
      [] query.type = "CLIENT_BLOCK_LIST_REQUEST" ->
            {[status |-> "OK", head_id |-> h, blocks |-> l] :
                h \in HeadIds,
                l \in ListsOf(WireBlocks, {PlainBlock(b) : b \in HeaderBytes})}
      [] query.type = "CLIENT_BLOCK_GET_REQUEST" ->
            {[status |-> "OK", block |-> b] : b \in WireBlocks}
      [] query.type = "CLIENT_BATCH_LIST_REQUEST" ->
            {[status |-> "OK", head_id |-> h, batches |-> l] :
                h \in HeadIds,
                l \in ListsOf(WireBatches, {PlainBatch(b) : b \in HeaderBytes})}
      [] query.type = "CLIENT_BATCH_GET_REQUEST" ->
            {[status |-> "OK", batch |-> b] : b \in WireBatches}

\* the reply type of a request type
ReplyProto(type) ==
    CASE type = "CLIENT_BATCH_SUBMIT_REQUEST" -> "ClientBatchSubmitResponse"
      [] type = "CLIENT_BATCH_STATUS_REQUEST" -> "ClientBatchStatusResponse"
      [] type = "CLIENT_STATE_LIST_REQUEST" -> "ClientStateListResponse"
      [] type = "CLIENT_STATE_GET_REQUEST" -> "ClientStateGetResponse"
      [] type = "CLIENT_BLOCK_LIST_REQUEST" -> "ClientBlockListResponse"
      [] type = "CLIENT_BLOCK_GET_REQUEST" -> "ClientBlockGetResponse"
      [] type = "CLIENT_BATCH_LIST_REQUEST" -> "ClientBatchListResponse"
      [] type = "CLIENT_BATCH_GET_REQUEST" -> "ClientBatchGetResponse"

\* the payloads of a reply with an error status: the status alone, or, for
\* the fetches, the status and a record
ErrorContents(query) ==
    LET enum == StatusEnum(ReplyProto(query.type))
        codes == {enum[n] : n \in 2..Len(enum)}
    IN {[status |-> c] : c \in codes}
       \cup (IF query.type = "CLIENT_BLOCK_GET_REQUEST"
             THEN {[status |-> c, block |-> PlainBlock(b)] :
                      c \in codes, b \in HeaderBytes}
             ELSE {})

\* every payload the validator may answer with: an OK reply, an error reply,
\* a message with no field set, or bytes that are no message of the type
Replies(query) ==
    OkContents(query) \cup ErrorContents(query)
        \cup {EmptyDict, [garbled |-> TRUE]}

\* the payloads of the runs with one request after another: each status of
\* the reply type, and for the fetches the record with it
SeqReplies(query) ==
    LET enum == StatusEnum(ReplyProto(query.type))
    IN {[status |-> enum[n]] : n \in 1..Len(enum)}
       \cup (IF query.type = "CLIENT_BLOCK_GET_REQUEST"
             THEN {[status |-> "OK", block |-> PlainBlock(GoodBytes("key"))]}
             ELSE IF query.type = "CLIENT_BATCH_GET_REQUEST"
             THEN {[status |-> "OK", batch |-> PlainBatch(GoodBytes("key"))]}
             ELSE {})

\* the payloads of the runs with several tasks
ConcReplies(query) ==
    {c \in Replies(query) :
        /\ "block" \in DOMAIN c => c.block.header.ok /\ c.block.batches = <<>>
        /\ "status" \in DOMAIN c
        /\ c.status \in {"OK", "NO_RESOURCE"}}

----------------------------------------------------------------------------
(* The Stream (sawtooth_sdk.client.stream): correlation ids and futures *)

\* Stream.send: a new correlation id, a pending future for it, the message out
StreamSend(futs, id) == (id :> [state |-> "pending"]) @@ futs

\* a reply arrives and resolves the oldest pending future, whatever its
\* correlation id
StreamDeliverInOrder(futs, message) ==
    IF \E id \in DOMAIN futs : futs[id].state = "pending"
    THEN LET oldest == CHOOSE id \in DOMAIN futs :
                          /\ futs[id].state = "pending"
                          /\ \A other \in DOMAIN futs :
                                futs[other].state = "pending" => id <= other
         IN [futs EXCEPT ![oldest] = [state |-> "result", message |-> message]]
    ELSE futs

\* a reply arrives: it resolves the pending future of its correlation id,
\* and is dropped when there is none
StreamDeliver(futs, message) ==
    IF /\ message.correlation_id \in DOMAIN futs
       /\ futs[message.correlation_id].state = "pending"
    THEN [futs EXCEPT ![message.correlation_id] =
                          [state |-> "result", message |-> message]]
    ELSE futs

\* the connection is torn down: every pending future is resolved with the
\* connection failure
StreamTeardown(futs) ==
    [id \in DOMAIN futs |->
        IF futs[id].state = "pending" THEN [state |-> "error"] ELSE futs[id]]

\* the waiter has observed its future, or its deadline has passed
StreamForget(futs, id) == [k \in DOMAIN futs \ {id} |-> futs[k]]

----------------------------------------------------------------------------
(* The event loop and its tasks *)

Tasks == DOMAIN pc

NoRequest == [handler |-> "none"]
NoOutcome == [kind |-> "none"]

\* the loop's thread is free: no handler is blocked in future.result()
LoopFree == \A j \in Tasks : pc[j] # "waiting"

\* what a finished handler leaves: res is what it returned or raised
Outcome(res, via, fut) ==
    LET seen == IF fut.state = "result"
                THEN [re |-> fut.message.correlation_id,
                      reply |-> fut.message.content]
                ELSE [re |-> 0]
    IN IF res.raised
       THEN [kind |-> "error", error |-> res.error, via |-> via] @@ seen
       ELSE [kind |-> "response", status |-> res.v.status,
             envelope |-> res.v.envelope, via |-> via] @@ seen

\* the handler goes on from `step`: it fails, awaits the body, or sends its
\* query and blocks in future.result(timeout)
Proceed(i, step) ==
    CASE step.next = "raise" ->
            /\ pc' = [pc EXCEPT ![i] = "done"]
            /\ outcome' = [outcome EXCEPT ![i] =
                  [kind |-> "error", error |-> step.error, via |-> "input",
                   re |-> 0]]
            /\ UNCHANGED <<corr, sent, futures, wire, nextCorr>>
      [] step.next = "await" ->
            /\ pc' = [pc EXCEPT ![i] = "reading"]
            /\ UNCHANGED <<corr, sent, outcome, futures, wire, nextCorr>>
      [] step.next = "send" ->
            /\ pc' = [pc EXCEPT ![i] = "waiting"]
            /\ corr' = [corr EXCEPT ![i] = nextCorr]
            /\ sent' = [sent EXCEPT ![i] = @ + 1]
            /\ futures' = StreamSend(futures, nextCorr)
            /\ wire' = wire \cup {[correlation_id |-> nextCorr,
                                   content |-> step.query]}
            /\ nextCorr' = nextCorr + 1
            /\ UNCHANGED outcome

\* the router starts the handler of a new request
Begin(i, r) ==
    /\ pc[i] = "idle"
    /\ LoopFree
    /\ request' = [request EXCEPT ![i] = r]
    /\ Proceed(i, HandlerBegin(r))

\* the body has been read: the handler resumes after its await
Resume(i) ==
    /\ pc[i] = "reading"
    /\ LoopFree
    /\ UNCHANGED request
    /\ Proceed(i, HandlerResume(request[i]))

\* the validator answers a message; the Stream's thread resolves the future
BackendReply(m, content) ==
    /\ m \in wire
    /\ wire' = wire \ {m}
    /\ futures' = StreamDeliver(futures, [correlation_id |-> m.correlation_id,
                                          content |-> content])
    /\ UNCHANGED <<pc, request, corr, sent, outcome, nextCorr>>

\* the connection to the validator is lost
Disconnect ==
    /\ \E id \in DOMAIN futures : futures[id].state = "pending"
    /\ futures' = StreamTeardown(futures)
    /\ UNCHANGED <<pc, request, corr, sent, outcome, wire, nextCorr>>

\* the handler's future is left to `via`: the handler runs to its end
Finish(i, via) ==
    /\ pc' = [pc EXCEPT ![i] = "done"]
    /\ outcome' = [outcome EXCEPT ![i] =
          Outcome(HandlerFinish(request[i], futures[corr[i]]), via,
                  futures[corr[i]])
          @@ [traps |-> EvaluatedTraps(request[i], futures[corr[i]])]]
    /\ futures' = StreamForget(futures, corr[i])
    /\ UNCHANGED <<request, corr, sent, wire, nextCorr>>

\* future.result(timeout) times out
Timeout(i) ==
    /\ pc[i] = "waiting"
    /\ futures[corr[i]].state = "pending"
    /\ Finish(i, "timeout")

\* future.result(timeout) returns
Complete(i) ==
    /\ pc[i] = "waiting"
    /\ futures[corr[i]].state # "pending"
    /\ Finish(i, IF futures[corr[i]].state = "error" THEN "disconnect" ELSE "reply")

InitOver(T) ==
    /\ pc = [i \in T |-> "idle"]
    /\ request = [i \in T |-> NoRequest]
    /\ corr = [i \in T |-> 0]
    /\ sent = [i \in T |-> 0]
    /\ outcome = [i \in T |-> NoOutcome]
    /\ futures = EmptyDict
    /\ wire = {}
    /\ nextCorr = 1

(* One request, drawn from all the requests and answered by any reply *)

Init == InitOver({1})

Next ==
    \/ \E i \in Tasks, r \in Requests : Begin(i, r)
    \/ \E i \in Tasks : Resume(i)
    \/ \E m \in wire : \E c \in Replies(m.content) : BackendReply(m, c)
    \/ Disconnect
    \/ \E i \in Tasks : Timeout(i)
    \/ \E i \in Tasks : Complete(i)

Spec == Init /\ [][Next]_vars

(* Several requests side by side *)

ConcInit == InitOver(1..NumTasks)

ConcNext ==
    \/ \E i \in Tasks, r \in ConcRequests : Begin(i, r)
    \/ \E i \in Tasks : Resume(i)
    \/ \E m \in wire : \E c \in ConcReplies(m.content) : BackendReply(m, c)
    \/ Disconnect
    \/ \E i \in Tasks : Timeout(i)
    \/ \E i \in Tasks : Complete(i)

ConcSpec == ConcInit /\ [][ConcNext]_vars

(* The same, with the thread blocked in future.result(timeout) going on:   *)
(* the timer runs out or the future is resolved, and the handler runs to   *)
(* its end.  Returns(i) is the step of Timeout(i) and Complete(i), told by  *)
(* what it does to the task.                                               *)

Returns(i) ==
    /\ pc[i] = "waiting"
    /\ pc' = [pc EXCEPT ![i] = "done"]

LiveSpec ==
    /\ ConcSpec
    /\ WF_pc(\E i \in 1..NumTasks : Returns(i))

(* One request after another, to any of the endpoints *)

SeqNext ==
    \/ \E i \in Tasks, r \in SeqRequests : Begin(i, r)
    \/ \E i \in Tasks : Resume(i)
    \/ \E m \in wire : \E c \in SeqReplies(m.content) : BackendReply(m, c)
    \/ \E i \in Tasks : Complete(i)

SeqSpec == ConcInit /\ [][SeqNext]_vars

(* One fetch_block request, answered by any of the deep blocks *)

ExpandRequest ==
    Req("fetch_block", "GET", None, NoBody, "localhost:8080",
        <<"/", "blocks", "/", "aaa">>, <<>>, <<"aaa">>)

ExpandNext ==
    \/ \E i \in Tasks : Begin(i, ExpandRequest)
    \/ \E m \in wire : \E b \in DeepBlocks :
          BackendReply(m, [status |-> "OK", block |-> b])
    \/ \E i \in Tasks : Complete(i)

ExpandSpec == Init /\ [][ExpandNext]_vars

----------------------------------------------------------------------------
(* The properties *)

\* the tasks whose handler returned a response
Responded == {i \in Tasks : outcome[i].kind = "response"}

\* the tasks whose handler ended on a parsed reply of the validator
Replied ==
    {i \in Tasks : /\ outcome[i].kind # "none"
                   /\ outcome[i].via = "reply"
                   /\ "garbled" \notin DOMAIN outcome[i].reply}

\* the reply of task i as the handler sees it
ReplyDict(i) ==
    message_to_dict(HandlerProto(request[i].handler), outcome[i].reply)

\* link is <scheme>://<host>/<segment>?id=<ids>, the ids being the header
\* signatures of the request's batches, comma-joined in their order
IsLookupLink(link, req, segment) ==
    LET batches == req.body.batches
        N == Len(batches)
    IN /\ Len(link) = 8 + 2 * N - 1
       /\ SubSeq(link, 1, 8) =
             <<req.scheme, "://", req.host, "/", segment, "?", "id", "=">>
       /\ \A n \in 1..N : link[8 + 2 * n - 1] = batches[n].header_signature
       /\ \A n \in 1..(N - 1) : link[8 + 2 * n] = ","

\* the request's `wait` parameter is absent or "false"
NoWait(req) ==
    \/ \A n \in 1..Len(req.query) : req.query[n].k # "wait"
    \/ QueryGet(req.query, "wait", None) = Some(<<"false">>)

\* C1: a submit_batches request without `wait`, or with wait=false, that gets
\* a response gets status 202 and the link
\* <scheme>://<host>/batch_status?id=<ids>, the ids being the submitted
\* batches' header signatures in input order.
C1_SubmitNoWait ==
    \A i \in Responded :
        (request[i].handler = "submit_batches" /\ NoWait(request[i])) =>
            /\ outcome[i].status = 202
            /\ IsLookupLink(outcome[i].envelope.link, request[i], "batch_status")

C1_Witness ==
    \E i \in Responded :
        /\ request[i].handler = "submit_batches"
        /\ request[i].query = <<P("wait", <<"false">>)>>
        /\ Len(request[i].body.batches) = 2
        /\ request[i].body.batches[1] # request[i].body.batches[2]
        /\ outcome[i].status = 202

\* the statuses of task i's reply are non-empty and all "COMMITTED"
AllCommitted(i) ==
    LET statuses == ReplyDict(i).batch_statuses
    IN /\ DOMAIN statuses # {}
       /\ \A b \in DOMAIN statuses : statuses[b] = "COMMITTED"

\* C2: a submit_batches response to a reply whose statuses are non-empty and
\* all "COMMITTED" has status 201, no `data` key, and the link
\* <scheme>://<host>/batches?id=<ids> with the request's host and ids.
C2_AllCommitted ==
    \A i \in Responded \cap Replied :
        (request[i].handler = "submit_batches" /\ AllCommitted(i)) =>
            /\ outcome[i].status = 201
            /\ "data" \notin DOMAIN outcome[i].envelope
            /\ IsLookupLink(outcome[i].envelope.link, request[i], "batches")

\* C3: a submit_batches response to a reply with a status that is not
\* "COMMITTED" has status 200, the whole status map as data and the
\* batch_status link; and a submit response has a `data` key exactly when its
\* status is 200.
C3_SomeUncommitted ==
    \A i \in Responded \cap Replied :
        request[i].handler = "submit_batches" =>
            /\ (\E b \in DOMAIN ReplyDict(i).batch_statuses :
                    ReplyDict(i).batch_statuses[b] # "COMMITTED") =>
                  /\ outcome[i].status = 200
                  /\ "data" \in DOMAIN outcome[i].envelope
                  /\ outcome[i].envelope.data = outcome[i].reply.batch_statuses
                  /\ IsLookupLink(outcome[i].envelope.link, request[i],
                                  "batch_status")
            /\ "data" \in DOMAIN outcome[i].envelope <=> outcome[i].status = 200

C3_Witness ==
    \E i \in Responded :
        /\ request[i].handler = "submit_batches"
        /\ outcome[i].status = 200
        /\ \E a, b \in DOMAIN outcome[i].envelope.data :
              /\ outcome[i].envelope.data[a] = "COMMITTED"
              /\ outcome[i].envelope.data[b] = "PENDING"

\* C4: a request whose reply does not arrive within the timeout ends with
\* ValidatorUnavailable and without an envelope, and no HTTP request ever
\* sends more than one message to the validator.
C4_TimeoutNoRetry ==
    \A i \in Tasks :
        /\ sent[i] <= 1
        /\ Cardinality({m \in wire : m.correlation_id = corr[i]}) <= 1
        /\ (outcome[i].kind # "none" /\ outcome[i].via = "timeout") =>
              /\ outcome[i].kind = "error"
              /\ outcome[i].error = "ValidatorUnavailable"
              /\ "envelope" \notin DOMAIN outcome[i]
              /\ sent[i] = 1

C4_Witness ==
    \E i \in Tasks :
        /\ outcome[i].kind = "error"
        /\ outcome[i].via = "timeout"
        /\ \E m \in wire : m.correlation_id = corr[i]

\* C5: a request outstanding when the connection is torn down ends with
\* ValidatorUnavailable, and every handler waiting for a reply ends, whatever
\* the validator does.
C5_TeardownAndTermination ==
    /\ [](\A i \in 1..NumTasks :
            (outcome[i].kind # "none" /\ outcome[i].via = "disconnect") =>
                /\ outcome[i].kind = "error"
                /\ outcome[i].error = "ValidatorUnavailable")
    /\ \A i \in 1..NumTasks : (pc[i] = "waiting") ~> (pc[i] = "done")

C5_Witness ==
    \E i \in Tasks :
        /\ pc[i] = "done"
        /\ outcome[i].via = "disconnect"
        /\ outcome[i].error = "ValidatorUnavailable"

\* C6: a handler that ends on a reply ends on the reply to its own message,
\* also when the validator answers in another order than it was asked.
C6_OwnReply ==
    \A i \in Tasks :
        (outcome[i].kind # "none" /\ outcome[i].via = "reply") =>
            /\ outcome[i].re = corr[i]
            /\ sent[i] = 1

\* a handler got its reply while an older message was still unanswered
C6_Witness ==
    \E i \in Tasks :
        /\ outcome[i].kind = "response"
        /\ outcome[i].re = corr[i]
        /\ \E m \in wire : m.correlation_id < corr[i]

\* C7: while a request waits for its reply, another request can be started.
C7_OthersProgress ==
    \A i, j \in Tasks :
        (pc[i] = "waiting" /\ pc[j] = "idle") =>
            ENABLED (\E r \in ConcRequests : Begin(j, r))

\* the chain the claims describe for task i: the handler's own traps, then
\* the baseline traps whose status code the reply type defines
ExpectedChain(i) ==
    HandlerTraps(request[i].handler) \o
    SelectSeq(<<Trap("Unknown", "INTERNAL_ERROR"), Trap("NotReady", "NOT_READY"),
                Trap("MissingHead", "NO_ROOT")>>,
              LAMBDA t : HasStatus(HandlerProto(request[i].handler), t.code))

\* a trap of the chain has the status of task i's reply as its code
Trapped(i) ==
    \E k \in 1..Len(ExpectedChain(i)) :
        ExpectedChain(i)[k].code = ReplyDict(i).status

\* C8: the error of a reply is that of the first trap, among the handler's
\* traps followed by the applicable baseline traps, whose code is the reply
\* status; when no trap has that code the reply is handed to the handler.
C8_TrapOrder ==
    \A i \in Replied :
        IF Trapped(i)
        THEN \E k \in 1..Len(ExpectedChain(i)) :
                /\ ExpectedChain(i)[k].code = ReplyDict(i).status
                /\ \A j \in 1..(k - 1) :
                      ExpectedChain(i)[j].code # ReplyDict(i).status
                /\ outcome[i].kind = "error"
                /\ outcome[i].error = ExpectedChain(i)[k].trap
        ELSE \/ outcome[i].kind = "response"
             \/ outcome[i].error \in {"DecodeError", "KeyError"}

C8_Witness ==
    \E i \in Replied :
        /\ request[i].handler = "fetch_state"
        /\ ReplyDict(i).status = "NO_ROOT"
        /\ outcome[i].kind = "error"
        /\ outcome[i].error = "MissingHead"

\* C9: when a trap matches the reply status, the request ends with an error
\* of the trap chain and without an envelope, and no failure of reading or
\* expanding the payload comes before it.
C9_StatusBeforePayload ==
    \A i \in Replied :
        Trapped(i) =>
            /\ outcome[i].kind = "error"
            /\ "envelope" \notin DOMAIN outcome[i]
            /\ outcome[i].error \notin {"DecodeError", "KeyError"}
            /\ (request[i].handler = "fetch_block"
                    /\ ReplyDict(i).status = "NO_RESOURCE") =>
                  outcome[i].error = "MissingBlock"

C9_Witness ==
    \E i \in Replied :
        /\ request[i].handler = "fetch_block"
        /\ ReplyDict(i).status = "NO_RESOURCE"
        /\ "block" \in DOMAIN outcome[i].reply
        /\ ~outcome[i].reply.block.header.ok
        /\ outcome[i].error = "MissingBlock"

\* the handler of task i has data to return
HasData(i) ==
    request[i].handler = "submit_batches" =>
        \E b \in DOMAIN ReplyDict(i).batch_statuses :
            ReplyDict(i).batch_statuses[b] # "COMMITTED"

\* the data and head keys of task i's envelope are as they should be
DataAndHeadKeys(i) ==
    /\ "data" \in DOMAIN outcome[i].envelope <=> HasData(i)
    /\ "head" \in DOMAIN outcome[i].envelope =>
          /\ "head_id" \in DOMAIN ReplyDict(i)
          /\ ReplyDict(i).head_id # ""
          /\ outcome[i].envelope.head = ReplyDict(i).head_id

\* C10 as stated: every envelope has the link key, has the data key only
\* when there is data, and has the head key only when the reply reported a
\* head id.
C10_EnvelopeKeys ==
    \A i \in Responded :
        /\ "link" \in DOMAIN outcome[i].envelope
        /\ DataAndHeadKeys(i)

\* C10 amended: the same, except that the envelope of list_statuses by POST
\* has no link key.
C10_EnvelopeKeysButPost ==
    \A i \in Responded :
        /\ "link" \in DOMAIN outcome[i].envelope <=>
              ~(request[i].handler = "list_statuses" /\ request[i].method = "POST")
        /\ DataAndHeadKeys(i)

C10_Witness ==
    \E i \in Responded :
        /\ request[i].handler = "list_statuses"
        /\ request[i].method = "POST"
        /\ DOMAIN outcome[i].envelope = {"data"}

----------------------------------------------------------------------------
(* Metadata *)

\* the tasks whose response carries the metadata of _get_metadata
WithMetadata ==
    {i \in Responded \cap Replied :
        /\ request[i].handler # "submit_batches"
        /\ request[i].method = "GET"}

\* the head id task i's reply reports, "" when it reports none
ReplyHead(i) ==
    IF "head_id" \in DOMAIN ReplyDict(i) THEN ReplyDict(i).head_id ELSE ""

\* the envelope of task i without its data
Metadata(i) ==
    [k \in DOMAIN outcome[i].envelope \ {"data"} |-> outcome[i].envelope[k]]

\* the query string of a link: what follows its "?"
LinkQuery(link) ==
    IF \E n \in 1..Len(link) : link[n] = "?"
    THEN SubSeq(link, 1 + (CHOOSE n \in 1..Len(link) :
                              /\ link[n] = "?"
                              /\ \A m \in 1..(n - 1) : link[m] # "?"),
                Len(link))
    ELSE <<>>

\* <scheme>://<host><path>?head=<head>, then the parameters `others`
\* as the request's URL carries them
PinnedLink(req, head, others) ==
    <<req.scheme, "://", req.host>> \o req.path \o <<"?", "head", "=", head>> \o
    (IF Len(others) = 0 THEN <<>>
     ELSE <<"&">> \o Join([n \in 1..Len(others) |-> RawItem(others[n])], "&"))

\* C11: the metadata of a reply without a head id is {link: the request's
\* URL}; that of a reply with head id h is {head: h, link}, the link being
\* <scheme>://<host><path>?head=h followed by the request's other query
\* parameters in their order, so that the link has exactly one head
\* parameter, the head the validator reported.
C11_Metadata ==
    \A i \in WithMetadata :
        IF ReplyHead(i) = ""
        THEN Metadata(i) = [link |-> UrlText(request[i])]
        ELSE LET others == SelectSeq(request[i].query, LAMBDA q : q.k # "head")
                 params == ParseQuery(LinkQuery(outcome[i].envelope.link))
             IN /\ Metadata(i) =
                      [head |-> ReplyHead(i),
                       link |-> PinnedLink(request[i], ReplyHead(i), others)]
                /\ Cardinality({n \in 1..Len(params) : params[n].k = "head"}) = 1
                /\ params = <<P("head", <<ReplyHead(i)>>)>> \o others

\* the request of task i carries the two query parameters address and head
AddressAndHead(i) ==
    /\ Len(request[i].query) = 2
    /\ {request[i].query[n].k : n \in 1..2} = {"address", "head"}

\* C12: for a request with the query parameters address=a and head=h whose
\* reply reports no other head than h, the metadata has head h and its link is
\* the request's scheme, host and path followed by ?head=h&address=a, or by
\* the two parameters in the other order.
C12_AddressAndHead ==
    \A i \in WithMetadata :
        LET req == request[i]
            h == QueryGet(req.query, "head", None).v
            a == SelectSeq(req.query, LAMBDA q : q.k = "address")
            base == <<req.scheme, "://", req.host>> \o req.path
        IN (AddressAndHead(i) /\ <<ReplyHead(i)>> = h) =>
              /\ "head" \in DOMAIN outcome[i].envelope
              /\ <<outcome[i].envelope.head>> = h
              /\ outcome[i].envelope.link \in
                    {base \o <<"?", "head", "=">> \o h \o <<"&">> \o RawItem(a[1]),
                     base \o <<"?">> \o RawItem(a[1]) \o <<"&", "head", "=">> \o h}

----------------------------------------------------------------------------
(* Header expansion *)

\* a header field that is a structured object: the decoded header of the
\* record `given`, not base64 text
Structured(record, given) ==
    /\ "base64" \notin DOMAIN record.header
    /\ record.header = given.header.msg
    /\ record.header_signature = given.header_signature

\* C13: in the block a fetch_block response returns, the header of the
\* block, of each batch and of each transaction is a structured object and
\* not base64 text, and the batches, and the transactions of each batch, are
\* those of the validator's block, as many and in the same order.
C13_Expanded ==
    \A i \in Responded \cap Replied :
        request[i].handler = "fetch_block" =>
            LET in == outcome[i].reply.block
                out == outcome[i].envelope.data
            IN /\ Structured(out, in)
               /\ Len(out.batches) = Len(in.batches)
               /\ \A n \in 1..Len(in.batches) :
                     /\ Structured(out.batches[n], in.batches[n])
                     /\ Len(out.batches[n].transactions) =
                           Len(in.batches[n].transactions)
                     /\ \A m \in 1..Len(in.batches[n].transactions) :
                           Structured(out.batches[n].transactions[m],
                                      in.batches[n].transactions[m])

\* a block of two different batches, the first with two different
\* transactions, has been expanded
C13_Witness ==
    \E i \in Responded :
        LET out == outcome[i].envelope.data
        IN /\ request[i].handler = "fetch_block"
           /\ Len(out.batches) = 2
           /\ out.batches[1].header_signature # out.batches[2].header_signature
           /\ Len(out.batches[1].transactions) = 2
           /\ out.batches[1].transactions[1].header_signature = "k2"
           /\ out.batches[1].transactions[2].header_signature = "k1"
           /\ out.batches[1].transactions[1].header = [signer_pubkey |-> "k2"]

----------------------------------------------------------------------------
(* Input validation *)

\* the tasks whose handler has ended
Ended == {i \in Tasks : outcome[i].kind # "none"}

\* the request is a submit_batches request the client got wrong: its content
\* type is not application/octet-stream, or is missing, or its body is empty
\* or no BatchList
BadSubmit(req) ==
    /\ req.handler = "submit_batches"
    /\ \/ req.ctype # Some("application/octet-stream")
       \/ req.body.bytes # "batchlist"

\* C14: a submit_batches request with a wrong or missing content type, an
\* empty body or a body that is no BatchList ends with a client error, and
\* nothing is sent to the validator for it.
C14_SubmitInputErrors ==
    \A i \in Tasks :
        BadSubmit(request[i]) =>
            /\ sent[i] = 0
            /\ i \in Ended =>
                  /\ outcome[i].kind = "error"
                  /\ outcome[i].error \in ClientErrors

\* the body of the request is a non-empty JSON array of strings
ValidIds(req) ==
    /\ req.body.bytes = "json"
    /\ req.body.json.t = "list"
    /\ Len(req.body.json.items) > 0
    /\ \A n \in 1..Len(req.body.json.items) : req.body.json.items[n].str

\* C15: a list_statuses POST is sent to the validator only if its body is a
\* non-empty JSON array of strings, and otherwise ends with BadStatusBody or
\* MissingStatusId; a list_statuses GET without the id parameter ends with
\* MissingStatusId and nothing sent, and one with an empty id parameter is
\* sent to the validator.
C15_StatusInputErrors ==
    \A i \in Tasks :
        request[i].handler = "list_statuses" =>
            IF request[i].method = "POST"
            THEN /\ sent[i] > 0 => ValidIds(request[i])
                 /\ (i \in Ended /\ ~ValidIds(request[i])) =>
                       /\ outcome[i].kind = "error"
                       /\ outcome[i].error \in {"BadStatusBody", "MissingStatusId"}
            ELSE IF QueryGet(request[i].query, "id", None).some
                 THEN /\ sent[i] = 1
                      /\ i \in Ended =>
                            ~(outcome[i].kind = "error"
                                /\ outcome[i].error = "MissingStatusId")
                 ELSE /\ sent[i] = 0
                      /\ outcome[i].kind = "error"
                      /\ outcome[i].error = "MissingStatusId"

----------------------------------------------------------------------------
(* The wait parameter *)

\* the query waits for `timeout`, or does not wait: neither field is set
Waits(query, timeout) == query.wait_for_commit /\ query.timeout = timeout
WaitUnset(query) == ~query.wait_for_commit /\ query.timeout = 0

\* C16 as stated: the query waits exactly when the wait parameter is present
\* and is not "false"; it then waits for the parameter's value when that is an
\* integer and for 95% of the handler's timeout otherwise.
C16_SetWait ==
    \A i \in Tasks : \A m \in wire :
        (m.correlation_id = corr[i] /\ "wait_for_commit" \in DOMAIN m.content) =>
            LET wait == QueryGet(request[i].query, "wait", None)
            IN IF wait.some /\ wait.v # <<"false">>
               THEN Waits(m.content,
                          IF IsInt(wait.v) THEN IntOf(wait.v)
                          ELSE (HandlerTimeout * 95) \div 100)
               ELSE WaitUnset(m.content)

\* C16 amended: the query waits exactly when the wait parameter is present
\* and is not "false" in any letter case; it then waits for the parameter's
\* value when that is an integer the timeout field takes, that is, not a
\* negative one, and for 95% of the handler's timeout otherwise.
C16_SetWaitAnyCase ==
    \A i \in Tasks : \A m \in wire :
        (m.correlation_id = corr[i] /\ "wait_for_commit" \in DOMAIN m.content) =>
            LET wait == QueryGet(request[i].query, "wait", None)
            IN IF wait.some /\ wait.v \notin {<<"false">>, <<"False">>, <<"FALSE">>}
               THEN Waits(m.content,
                          IF IsInt(wait.v) /\ IntOf(wait.v) >= 0
                          THEN IntOf(wait.v)
                          ELSE (HandlerTimeout * 95) \div 100)
               ELSE WaitUnset(m.content)

\* a submit with wait=5 has been sent, waiting for 5
C16_Witness ==
    \E i \in Tasks : \E m \in wire :
        /\ m.correlation_id = corr[i]
        /\ request[i].handler = "submit_batches"
        /\ request[i].query = <<P("wait", <<"5">>)>>
        /\ m.content.wait_for_commit
        /\ m.content.timeout = 5

----------------------------------------------------------------------------
(* The metadata of list_statuses *)

\* C17: a list_statuses response by GET carries the statuses as data and the
\* link of _get_metadata, with the head only when the reply reports one; a
\* response by POST carries the data alone, neither link nor head.
C17_StatusMetadata ==
    \A i \in Responded \cap Replied :
        request[i].handler = "list_statuses" =>
            /\ outcome[i].envelope.data = ReplyDict(i).batch_statuses
            /\ IF request[i].method = "GET"
               THEN /\ "link" \in DOMAIN outcome[i].envelope
                    /\ "head" \in DOMAIN outcome[i].envelope <=> ReplyHead(i) # ""
                    /\ ReplyHead(i) = "" =>
                          outcome[i].envelope.link = UrlText(request[i])
               ELSE DOMAIN outcome[i].envelope = {"data"}

\* a GET for two ids has been answered with their statuses and its own URL
C17_Witness ==
    \E i \in Responded :
        /\ request[i].handler = "list_statuses"
        /\ request[i].method = "GET"
        /\ DOMAIN outcome[i].envelope = {"data", "link"}
        /\ DOMAIN outcome[i].envelope.data = {"aaa", "bbb"}
        /\ outcome[i].envelope.link =
              <<"http", "://", request[i].host, "/", "batch_status", "?",
                "id", "=", "aaa", ",", "bbb">>

----------------------------------------------------------------------------
(* Malformed headers *)

\* the header of the batch, or of one of its transactions, is no header
BadBatch(b) ==
    \/ ~b.header.ok
    \/ \E n \in 1..Len(b.transactions) : ~b.transactions[n].header.ok

\* the header of the block, or one in one of its batches, is no header
BadBlock(b) ==
    \/ ~b.header.ok
    \/ \E n \in 1..Len(b.batches) : BadBatch(b.batches[n])

\* task i's handler expands the records of its reply, and a header among
\* them, at some depth, is no header
ExpandsMalformed(i) ==
    LET reply == outcome[i].reply
        h == request[i].handler
    IN /\ ~Trapped(i)
       /\ \/ /\ h = "fetch_block" /\ "block" \in DOMAIN reply
             /\ BadBlock(reply.block)
          \/ /\ h = "list_blocks" /\ "blocks" \in DOMAIN reply
             /\ \E n \in 1..Len(reply.blocks) : BadBlock(reply.blocks[n])
          \/ /\ h = "fetch_batch" /\ "batch" \in DOMAIN reply
             /\ BadBatch(reply.batch)
          \/ /\ h = "list_batches" /\ "batches" \in DOMAIN reply
             /\ \E n \in 1..Len(reply.batches) : BadBatch(reply.batches[n])

\* C18: a request whose handler expands a reply with a malformed header, at
\* any depth, ends with the decoding failure, which is none of the client
\* errors, and without an envelope.
C18_MalformedHeaderFails ==
    \A i \in Replied :
        ExpandsMalformed(i) =>
            /\ outcome[i].kind = "error"
            /\ outcome[i].error = "DecodeError"
            /\ outcome[i].error \notin ClientErrors
            /\ "envelope" \notin DOMAIN outcome[i]

\* a block whose only malformed header is that of a transaction of its batch
\* has ended the request with the decoding failure
C18_Witness ==
    \E i \in Replied :
        /\ request[i].handler = "fetch_block"
        /\ "block" \in DOMAIN outcome[i].reply
        /\ outcome[i].reply.block.header.ok
        /\ Len(outcome[i].reply.block.batches) = 1
        /\ outcome[i].reply.block.batches[1].header.ok
        /\ Len(outcome[i].reply.block.batches[1].transactions) = 1
        /\ ~outcome[i].reply.block.batches[1].transactions[1].header.ok
        /\ outcome[i].kind = "error"
        /\ outcome[i].error = "DecodeError"

----------------------------------------------------------------------------
(* The traps of a call *)

\* C19: whatever requests came before, the traps evaluated for a request are
\* its endpoint's own traps followed by the baseline traps its reply type
\* has a status for, each once: none of an earlier request's traps is among
\* them, and the chain is no longer than the endpoint's own.
C19_TrapsPerCall ==
    \A i \in Replied :
        LET chain == outcome[i].traps
        IN /\ chain = ExpectedChain(i)
           /\ \A a, b \in 1..Len(chain) : chain[a] = chain[b] => a = b
           /\ Len(chain) <= Len(HandlerTraps(request[i].handler)) + 3

\* a fetch_state request has been trapped after a fetch_block request was
\* answered, by a chain of its own two traps and the three baseline traps
C19_Witness ==
    \E i, j \in Replied :
        /\ request[j].handler = "fetch_block"
        /\ request[i].handler = "fetch_state"
        /\ corr[j] < corr[i]
        /\ Len(outcome[j].traps) = 3
        /\ outcome[i].traps =
              <<MissingLeaf, BadAddress, Trap("Unknown", "INTERNAL_ERROR"),
                Trap("NotReady", "NOT_READY"), Trap("MissingHead", "NO_ROOT")>>
        /\ outcome[i].kind = "error"
        /\ outcome[i].error = "MissingHead"

====
